---- MODULE Spec2Model ----
(***************************************************************************)
(* OKR progress-consistency engine of agiemme-planner.                     *)
(*                                                                         *)
(* The store is PostgreSQL reached through pool.query: no handler opens a  *)
(* transaction, so every awaited query is one autocommit statement.  A     *)
(* statement (with the triggers and CHECK/FOREIGN KEY constraints it       *)
(* fires) is atomic; a handler is a sequence of such statements, and the   *)
(* statements of concurrent handlers interleave at every await.            *)
(*                                                                         *)
(* Values of DECIMAL(10,2) columns are integers counting hundredths.       *)
(* Dates are integers counting days.                                       *)
(***************************************************************************)
EXTENDS Integers, Sequences, FiniteSets, TLC

\* ---------------------------------------------------------------- bounds
MaxDay == 1
MaxObjs == 1
MaxKrs == 3
MaxUpdates == 2
MaxCalls == 3
MaxProcs == 2

\* ------------------------------------------------------ program constants
MinKeyResults == 2
MaxKeyResults == 5
AtRiskDays == 14
AtRiskPct == 50
MinDescription == 10
MaxDescription == 300

\* Unit of a completion percentage: 1/PctUnit percent.  PostgreSQL numeric
\* division keeps at least 16 significant digits; the model keeps 4
\* decimals, rounded half up, which is exact enough for the values drawn.
PctUnit == 10000

Undef == -99

\* The handlers that can run at the same time
Procs == 1..MaxProcs

ObjIds == 1..MaxObjs
KrIds == 1..MaxKrs

VARIABLES
  today,     \* CURRENT_DATE
  objs,      \* table objectives: id -> row
  krs,       \* table key_results: id -> row
  ledger,    \* table progress_updates, in commit order
  nextObj,   \* next fresh objectives.id
  nextKr,    \* next fresh key_results.id
  nextPu,    \* next fresh progress_updates.id, also the NOW() of the insert
  procs,     \* the request handlers in flight
  resp,      \* the latest answer of a handler
  calls      \* number of requests received

vars == <<today, objs, krs, ledger, nextObj, nextKr, nextPu, procs, resp, calls>>
db == <<objs, krs, ledger, nextObj, nextKr, nextPu>>

\* ------------------------------------------------------------ inputs
KR(t, d, len) == [targetValue |-> t, deadline |-> d, descLen |-> len]

\* Bodies of POST /api/objectives: 3 valid key results; 2 valid key results
\* due today; 1 key result; a deadline after the target date;
\* a key result whose description the table rejects; 6 key results.
CreateRequests ==
  << [targetDate |-> 15, keyResults |-> <<KR(100, 14, 10), KR(300, 14, 10), KR(300, 14, 10)>>],
     [targetDate |-> 0,  keyResults |-> <<KR(100, 0, 10), KR(100, 0, 10)>>],
     [targetDate |-> 14, keyResults |-> <<KR(100, 14, 10)>>],
     [targetDate |-> 14, keyResults |-> <<KR(100, 14, 10), KR(100, 15, 10)>>],
     [targetDate |-> 14, keyResults |-> <<KR(100, 14, 10), KR(300, 14, 5)>>],
     [targetDate |-> 14, keyResults |-> <<KR(100, 14, 10), KR(100, 14, 10),
                                          KR(100, 14, 10), KR(100, 14, 10),
                                          KR(100, 14, 10), KR(100, 14, 10)>>] >>

ProgressValues == {-100, 0, 100, 300}

PU(k, v) == [keyResultId |-> k, valueRecorded |-> v]

\* Arguments of batchUpdateProgress: two key results brought to 1.00; a
\* second value above every target; a negative value; a second key result
\* that may not exist; no update; two values of one key result.
BatchRequests ==
  << <<PU(1, 100), PU(2, 100)>>,
     <<PU(1, 100), PU(2, 500)>>,
     <<PU(1, -100)>>,
     <<PU(1, 100), PU(3, 100)>>,
     <<>>,
     <<PU(1, 100), PU(1, 0)>> >>

UKR(t, c, d) == [targetValue |-> t, currentValue |-> c, deadline |-> d]

\* Bodies of PUT /api/key-results/:id
UpdateKeyResultInputs ==
  { UKR(Undef, Undef, Undef),
    UKR(100, Undef, Undef), UKR(300, Undef, Undef),
    UKR(Undef, 100, Undef), UKR(Undef, 300, Undef),
    UKR(Undef, Undef, 15),
    UKR(Undef, 100, 15) }

NoStatus == "undefined"
ObjectiveStatuses == {"active", "completed", "archived", "abandoned"}

UO(d, s) == [targetDate |-> d, status |-> s]

\* Bodies of PUT /api/objectives/:id
UpdateObjectiveInputs ==
  { UO(Undef, NoStatus), UO(14, NoStatus) }
  \cup { UO(Undef, s) : s \in ObjectiveStatuses }

\* ------------------------------------------------------------ helpers
Min(a, b) == IF a < b THEN a ELSE b

Range(s) == { s[i] : i \in DOMAIN s }

Remove(f, ids) == [x \in (DOMAIN f) \ ids |-> f[x]]

\* ------------------------------------------------- key_results triggers
\* (current_val / target_val) * 100 in units of 1/PctUnit percent, rounded
\* half up; the whole percents are divided first to keep the numbers small
calculate_completion_percentage(current_val, target_val) ==
  IF target_val = 0 THEN 0
  ELSE Min(((100 * current_val) \div target_val) * PctUnit
             + (2 * ((100 * current_val) % target_val) * PctUnit + target_val)
                 \div (2 * target_val),
           100 * PctUnit)

\* The rule with a deadline 14 days away counted as near
update_key_result_status_within(current_value, target_value, deadline, current_date) ==
  LET completion_pct == calculate_completion_percentage(current_value, target_value)
      days_until_deadline == deadline - current_date
  IN  IF completion_pct >= 100 * PctUnit THEN "completed"
      ELSE IF current_value > 0
           THEN IF days_until_deadline <= AtRiskDays /\ completion_pct < AtRiskPct * PctUnit
                THEN "at_risk"
                ELSE "in_progress"
           ELSE "not_started"

update_key_result_status(current_value, target_value, deadline, current_date) ==
  LET completion_pct == calculate_completion_percentage(current_value, target_value)
      days_until_deadline == deadline - current_date
  IN  IF completion_pct >= 100 * PctUnit THEN "completed"
      ELSE IF current_value > 0
           THEN IF days_until_deadline < AtRiskDays /\ completion_pct < AtRiskPct * PctUnit
                THEN "at_risk"
                ELSE "in_progress"
           ELSE "not_started"

\* The CHECK constraints without the upper limit of current_value
key_results_checks_unbounded(row) ==
  /\ row.descLen >= MinDescription /\ row.descLen <= MaxDescription
  /\ row.target_value > 0
  /\ row.current_value >= 0

\* CHECK constraints of key_results
key_results_checks(row) ==
  /\ row.descLen >= MinDescription /\ row.descLen <= MaxDescription
  /\ row.target_value > 0
  /\ row.current_value >= 0 /\ row.current_value <= row.target_value

\* CHECK constraint objectives_target_date_future, evaluated on every INSERT
\* and on every UPDATE of a row of objectives
objectives_checks(row) == row.target_date >= today

\* BEFORE INSERT OR UPDATE OF current_value, target_value, deadline
key_results_auto_status(row) ==
  [row EXCEPT !.status =
     update_key_result_status(row.current_value, row.target_value, row.deadline, today)]

\* The trigger adding the recorded value to the current value
update_key_result_from_progress_sum(row, value_recorded) ==
  [row EXCEPT !.current_value = row.current_value + value_recorded]

\* The trigger never lowering the current value
update_key_result_from_progress_max(row, value_recorded) ==
  [row EXCEPT !.current_value =
     IF value_recorded > row.current_value THEN value_recorded ELSE @]

\* AFTER INSERT ON progress_updates: UPDATE key_results SET current_value
update_key_result_from_progress(row, value_recorded) ==
  [row EXCEPT !.current_value = value_recorded]

findKeyResultsByObjectiveId(objectiveId) ==
  { k \in DOMAIN krs : krs[k].objective_id = objectiveId }

\* ------------------------------------------------------------ processes
Idle ==
  [op |-> "idle", pc |-> "done", kr |-> 0, obj |-> 0, val |-> 0,
   req |-> 0, i |-> 0, failed |-> FALSE, data |-> UKR(Undef, Undef, Undef),
   odata |-> UO(Undef, NoStatus), objectiveIds |-> <<>>,
   n0 |-> 0, cur0 |-> 0, st0 |-> "none", os0 |-> "none",
   objs0 |-> <<>>, krs0 |-> <<>>, ledger0 |-> <<>>]

\* A handler that can take a new request: the first one that is not busy
Free(p) ==
  /\ procs[p].pc = "done"
  /\ \A q \in Procs : q < p => procs[q].pc # "done"
  /\ calls < MaxCalls

Call(opname) == [Idle EXCEPT !.op = opname]

\* The handler goes on to its next statement
Set(p, rec) ==
  /\ procs' = [procs EXCEPT ![p] = rec]
  /\ calls' = IF procs[p].pc = "done" THEN calls + 1 ELSE calls
  /\ UNCHANGED resp

\* The handler answers: its locals are dropped
Return(p, rec, result) ==
  /\ procs' = [procs EXCEPT ![p] = Idle]
  /\ calls' = IF procs[p].pc = "done" THEN calls + 1 ELSE calls
  /\ resp' = [op |-> rec.op, res |-> result]

InFlight(opname) == { q \in Procs : procs[q].op = opname /\ procs[q].pc # "done" }

\* Number of INSERT INTO key_results the creations in flight have yet to run
RECURSIVE PendingKeyResults(_)
PendingKeyResults(ps) ==
  IF ps = {} THEN 0
  ELSE LET q == CHOOSE x \in ps : TRUE
       IN  Len(CreateRequests[procs[q].req].keyResults) - procs[q].i + 1
           + PendingKeyResults(ps \ {q})

Init ==
  /\ today = 0
  /\ objs = <<>>
  /\ krs = <<>>
  /\ ledger = <<>>
  /\ nextObj = 1
  /\ nextKr = 1
  /\ nextPu = 1
  /\ procs = [p \in Procs |-> Idle]
  /\ resp = [op |-> "idle", res |-> "none"]
  /\ calls = 0

\* The date changes; no statement runs.
AdvanceDay ==
  /\ today < MaxDay
  /\ today' = today + 1
  /\ UNCHANGED <<db, procs, resp, calls>>

\* ---------------------------------------- createObjectiveWithKeyResults
\* The count check with no lower limit
invalidKeyResultsCount_upper(n) == n > MaxKeyResults

\* data.keyResults.length < 2 || data.keyResults.length > 5
invalidKeyResultsCount(n) == n < MinKeyResults \/ n > MaxKeyResults

\* Validation, then INSERT INTO objectives.
CreateObjective_insert(p, r) ==
  LET data == CreateRequests[r]
      n == Len(data.keyResults)
      c == [Call("createObjective") EXCEPT !.req = r]
      row == [target_date |-> data.targetDate, status |-> "active"]
  IN  /\ Free(p)
      /\ nextObj <= MaxObjs
      /\ invalidKeyResultsCount(n)
           \/ nextKr + PendingKeyResults(InFlight("createObjective")) + n - 1 <= MaxKrs
      /\ UNCHANGED <<today, krs, ledger, nextKr, nextPu>>
      /\ IF invalidKeyResultsCount(n)
         THEN /\ Return(p, c, "INVALID_KEY_RESULTS_COUNT")
              /\ UNCHANGED <<objs, nextObj>>
         ELSE IF \E j \in 1..n : data.keyResults[j].deadline > data.targetDate
         THEN /\ Return(p, c, "INVALID_DEADLINE")
              /\ UNCHANGED <<objs, nextObj>>
         ELSE IF ~objectives_checks(row)
         THEN /\ Return(p, c, "INTERNAL_ERROR")
              /\ UNCHANGED <<objs, nextObj>>
         ELSE /\ objs' = objs @@ (nextObj :> row)
              /\ nextObj' = nextObj + 1
              /\ Set(p, [c EXCEPT !.pc = "co_kr", !.obj = nextObj, !.i = 1])

\* One INSERT INTO key_results of the Promise.all.  The queries are all
\* issued; one that fails rejects the call and the others still run.  They
\* are taken in list order.
CreateObjective_keyResult(p) ==
  LET c == procs[p]
      data == CreateRequests[c.req]
      kr == data.keyResults[c.i]
      row == key_results_auto_status(
               [objective_id |-> c.obj, target_value |-> kr.targetValue,
                current_value |-> 0, deadline |-> kr.deadline,
                status |-> "not_started", descLen |-> kr.descLen])
      ok == c.obj \in DOMAIN objs /\ key_results_checks(row)
      failed == c.failed \/ ~ok
      c2 == [c EXCEPT !.i = c.i + 1, !.failed = failed]
  IN  /\ c.op = "createObjective" /\ c.pc = "co_kr"
      /\ UNCHANGED <<today, objs, ledger, nextObj, nextPu>>
      /\ IF ok
         THEN krs' = krs @@ (nextKr :> row) /\ nextKr' = nextKr + 1
         ELSE UNCHANGED <<krs, nextKr>>
      /\ IF c.i = Len(data.keyResults)
         THEN Return(p, c, IF failed THEN "INTERNAL_ERROR" ELSE "ok")
         ELSE Set(p, c2)

\* ObjectiveModel.updateObjective: the row of objectives after SET of the
\* fields the data defines
updateObjectiveRow(row, d) ==
  [row EXCEPT
     !.target_date = IF d.targetDate # Undef THEN d.targetDate ELSE @,
     !.status = IF d.status # NoStatus THEN d.status ELSE @]

\* The completion rule putting the Objective back to active
completionData_active == UO(Undef, "active")

\* The data checkAndUpdateObjectiveCompletion passes to updateObjective
completionData == UO(Undef, "completed")

\* ------------------------------------------------------- updateProgress
\* findKeyResultById, then the check of the sign of valueRecorded.
UpdateProgress_find(p, k, v) ==
  LET c == [Call("updateProgress") EXCEPT !.kr = k, !.val = v]
  IN  /\ Free(p)
      /\ nextPu + Cardinality(InFlight("updateProgress")) <= MaxUpdates
      /\ UNCHANGED <<today, db>>
      /\ IF k \notin DOMAIN krs
         THEN Return(p, c, "KEY_RESULT_NOT_FOUND")
         ELSE IF v < 0
         THEN Return(p, c, "INVALID_PROGRESS_VALUE")
         ELSE Set(p, [c EXCEPT !.pc = "up_insert",
                               !.obj = krs[k].objective_id,
                               !.n0 = Len(ledger),
                               !.cur0 = krs[k].current_value,
                               !.st0 = krs[k].status,
                               !.os0 = objs[krs[k].objective_id].status])

\* createProgressUpdate: INSERT INTO progress_updates, whose AFTER INSERT
\* trigger update_key_result_from_progress updates key_results, whose
\* BEFORE UPDATE trigger recomputes the status; a constraint that fails
\* undoes the whole statement.
UpdateProgress_insert(p) ==
  LET c == procs[p]
      k == c.kr
      row == key_results_auto_status(update_key_result_from_progress(krs[k], c.val))
      ok == k \in DOMAIN krs /\ c.val >= 0 /\ key_results_checks(row)
      pu == [id |-> nextPu, key_result_id |-> k, value_recorded |-> c.val,
             recorded_at |-> nextPu]
  IN  /\ c.op = "updateProgress" /\ c.pc = "up_insert"
      /\ UNCHANGED <<today, objs, nextObj, nextKr>>
      /\ IF ok
         THEN /\ ledger' = Append(ledger, pu)
              /\ nextPu' = nextPu + 1
              /\ krs' = [krs EXCEPT ![k] = row]
              /\ Set(p, [c EXCEPT !.pc = "up_check"])
         ELSE /\ UNCHANGED <<ledger, nextPu, krs>>
              /\ Return(p, c, "INTERNAL_ERROR")

\* every() alone, true of an empty list
allCompleted_every(keyResults) ==
  \A k \in keyResults : krs[k].status = "completed"

\* checkAndUpdateObjectiveCompletion: the decision
allCompleted(keyResults) ==
  keyResults # {} /\ \A k \in keyResults : krs[k].status = "completed"

\* checkAndUpdateObjectiveCompletion: findKeyResultsByObjectiveId
UpdateProgress_check(p) ==
  LET c == procs[p]
      keyResults == findKeyResultsByObjectiveId(c.obj)
  IN  /\ c.op = "updateProgress" /\ c.pc = "up_check"
      /\ UNCHANGED <<today, db>>
      /\ IF allCompleted(keyResults)
         THEN Set(p, [c EXCEPT !.pc = "up_complete"])
         ELSE Return(p, c, "ok")

\* checkAndUpdateObjectiveCompletion: updateObjective(id, {status: 'completed'})
UpdateProgress_complete(p) ==
  LET c == procs[p]
      o == c.obj
  IN  /\ c.op = "updateProgress" /\ c.pc = "up_complete"
      /\ UNCHANGED <<today, krs, ledger, nextObj, nextKr, nextPu>>
      /\ IF o \notin DOMAIN objs
         THEN UNCHANGED objs /\ Return(p, c, "ok")
         ELSE IF ~objectives_checks(updateObjectiveRow(objs[o], completionData))
         THEN UNCHANGED objs /\ Return(p, c, "INTERNAL_ERROR")
         ELSE /\ objs' = [objs EXCEPT ![o] = updateObjectiveRow(@, completionData)]
              /\ Return(p, c, "ok")

\* -------------------------------------------------- batchUpdateProgress
\* Number of INSERT INTO progress_updates the batches in flight have yet to
\* run
RECURSIVE PendingUpdates(_)
PendingUpdates(ps) ==
  IF ps = {} THEN 0
  ELSE LET q == CHOOSE x \in ps : TRUE
       IN  (IF procs[q].pc \in {"bp_find", "bp_insert"}
            THEN Len(BatchRequests[procs[q].req]) - procs[q].i + 1 ELSE 0)
           + PendingUpdates(ps \ {q})

\* objectiveIds.add(keyResult.objectiveId): a Set keeps insertion order
SetAdd(ids, o) == IF o \in Range(ids) THEN ids ELSE Append(ids, o)

\* findKeyResultById of the update the loop is at
batchFind(p, c) ==
  LET k == BatchRequests[c.req][c.i].keyResultId
  IN  IF k \notin DOMAIN krs
      THEN Return(p, c, "KEY_RESULT_NOT_FOUND")
      ELSE Set(p, [c EXCEPT !.pc = "bp_insert",
                            !.objectiveIds = SetAdd(@, krs[k].objective_id)])

\* The call, up to the findKeyResultById of the first update
BatchUpdateProgress_call(p, r) ==
  LET c == [Call("batchUpdateProgress") EXCEPT !.req = r, !.i = 1,
                                              !.objs0 = objs, !.krs0 = krs,
                                              !.ledger0 = ledger]
  IN  /\ Free(p)
      /\ nextPu + Cardinality(InFlight("updateProgress"))
           + PendingUpdates(InFlight("batchUpdateProgress"))
           + Len(BatchRequests[r]) - 1 <= MaxUpdates
      /\ UNCHANGED <<today, db>>
      /\ IF BatchRequests[r] = <<>>
         THEN Return(p, c, "ok")
         ELSE batchFind(p, c)

\* findKeyResultById of the next update
BatchUpdateProgress_find(p) ==
  LET c == procs[p]
  IN  /\ c.op = "batchUpdateProgress" /\ c.pc = "bp_find"
      /\ UNCHANGED <<today, db>>
      /\ batchFind(p, c)

\* createProgressUpdate of the update the loop is at, with its triggers;
\* valueRecorded is not checked before the INSERT, whose CHECK refuses a
\* negative value.
BatchUpdateProgress_insert(p) ==
  LET c == procs[p]
      updates == BatchRequests[c.req]
      k == updates[c.i].keyResultId
      v == updates[c.i].valueRecorded
      row == key_results_auto_status(update_key_result_from_progress(krs[k], v))
      ok == k \in DOMAIN krs /\ v >= 0 /\ key_results_checks(row)
      pu == [id |-> nextPu, key_result_id |-> k, value_recorded |-> v,
             recorded_at |-> nextPu]
  IN  /\ c.op = "batchUpdateProgress" /\ c.pc = "bp_insert"
      /\ UNCHANGED <<today, objs, nextObj, nextKr>>
      /\ IF ok
         THEN /\ ledger' = Append(ledger, pu)
              /\ nextPu' = nextPu + 1
              /\ krs' = [krs EXCEPT ![k] = row]
              /\ IF c.i < Len(updates)
                 THEN Set(p, [c EXCEPT !.pc = "bp_find", !.i = c.i + 1])
                 ELSE Set(p, [c EXCEPT !.pc = "bp_check", !.i = 1])
         ELSE /\ UNCHANGED <<ledger, nextPu, krs>>
              /\ Return(p, c, "INTERNAL_ERROR")

\* The objective loop goes on to its next id, or the call answers
batchNext(p, c) ==
  IF c.i < Len(c.objectiveIds)
  THEN Set(p, [c EXCEPT !.pc = "bp_check", !.i = c.i + 1])
  ELSE Return(p, c, "ok")

\* checkAndUpdateObjectiveCompletion of the objective the loop is at:
\* findKeyResultsByObjectiveId
BatchUpdateProgress_check(p) ==
  LET c == procs[p]
      keyResults == findKeyResultsByObjectiveId(c.objectiveIds[c.i])
  IN  /\ c.op = "batchUpdateProgress" /\ c.pc = "bp_check"
      /\ UNCHANGED <<today, db>>
      /\ IF allCompleted(keyResults)
         THEN Set(p, [c EXCEPT !.pc = "bp_complete"])
         ELSE batchNext(p, c)

\* checkAndUpdateObjectiveCompletion: updateObjective(id, {status: 'completed'})
BatchUpdateProgress_complete(p) ==
  LET c == procs[p]
      o == c.objectiveIds[c.i]
  IN  /\ c.op = "batchUpdateProgress" /\ c.pc = "bp_complete"
      /\ UNCHANGED <<today, krs, ledger, nextObj, nextKr, nextPu>>
      /\ IF o \notin DOMAIN objs
         THEN UNCHANGED objs /\ batchNext(p, c)
         ELSE IF ~objectives_checks(updateObjectiveRow(objs[o], completionData))
         THEN UNCHANGED objs /\ Return(p, c, "INTERNAL_ERROR")
         ELSE /\ objs' = [objs EXCEPT ![o] = updateObjectiveRow(@, completionData)]
              /\ batchNext(p, c)

\* ------------------------------------- findProgressUpdatesByKeyResultId
\* The values of options.startDate and options.endDate: times of inserts,
\* or no bound
HistoryBounds == {Undef} \cup (1..MaxUpdates)

\* The WHERE clause with both bounds exclusive
inRange_exclusive(recorded_at, startDate, endDate) ==
  /\ startDate # Undef => recorded_at > startDate
  /\ endDate # Undef => recorded_at < endDate

\* AND recorded_at >= startDate AND recorded_at <= endDate, each one added
\* when the option is given
inRange(recorded_at, startDate, endDate) ==
  /\ startDate # Undef => recorded_at >= startDate
  /\ endDate # Undef => recorded_at <= endDate

\* ORDER BY recorded_at DESC
RECURSIVE OrderByRecordedAtDesc(_)
OrderByRecordedAtDesc(rows) ==
  IF rows = {} THEN <<>>
  ELSE LET first == CHOOSE u \in rows : \A w \in rows : w.recorded_at <= u.recorded_at
       IN  <<first>> \o OrderByRecordedAtDesc(rows \ {first})

\* SELECT ... FROM progress_updates WHERE key_result_id = $1 ...
findProgressUpdatesByKeyResultId(keyResultId, startDate, endDate) ==
  OrderByRecordedAtDesc(
    { u \in Range(ledger) : /\ u.key_result_id = keyResultId
                            /\ inRange(u.recorded_at, startDate, endDate) })

\* The query is one statement; the rows are the answer.
FindProgressUpdates(p, k, startDate, endDate) ==
  /\ Free(p)
  /\ UNCHANGED <<today, db>>
  /\ Return(p, Call("findProgressUpdatesByKeyResultId"),
            findProgressUpdatesByKeyResultId(k, startDate, endDate))

\* ------------------------------------------------- deleteProgressUpdate
\* The ids a caller names
ProgressUpdateIds == 1..MaxUpdates

\* A DELETE of all the entries of the Key Result of the named entry
progress_updates_delete_history(id) ==
  SelectSeq(ledger, LAMBDA u : \A w \in Range(ledger) :
                                 w.id = id => u.key_result_id # w.key_result_id)

\* DELETE FROM progress_updates WHERE id = $1
progress_updates_delete(id) ==
  SelectSeq(ledger, LAMBDA u : u.id # id)

\* deleteProgressUpdate: the DELETE, and rowCount > 0 as the answer; no
\* trigger runs on a DELETE of progress_updates.
DeleteProgressUpdate(p, id) ==
  /\ Free(p)
  /\ ledger' = progress_updates_delete(id)
  /\ UNCHANGED <<today, objs, krs, nextObj, nextKr, nextPu>>
  /\ Return(p, Call("deleteProgressUpdate"),
            IF \E u \in Range(ledger) : u.id = id THEN "true" ELSE "false")

\* ------------------------------------------------------ updateKeyResult
\* PUT /api/key-results/:id: findKeyResultById and the checks of the body.
UpdateKeyResult_find(p, k, d) ==
  LET c == [Call("updateKeyResult") EXCEPT !.kr = k, !.data = d]
  IN  /\ Free(p)
      /\ UNCHANGED <<today, db>>
      /\ IF k \notin DOMAIN krs
         THEN Return(p, c, "KEY_RESULT_NOT_FOUND")
         ELSE IF d.targetValue # Undef /\ d.targetValue <= 0
         THEN Return(p, c, "INVALID_TARGET_VALUE")
         ELSE IF d.currentValue # Undef /\ d.currentValue < 0
         THEN Return(p, c, "INVALID_CURRENT_VALUE")
         ELSE Set(p, [c EXCEPT !.pc = IF d.deadline # Undef THEN "ukr_deadline"
                                      ELSE "ukr_write"])

\* The comparison letting a deadline one day late through
exceedsTargetDate_lenient(deadline, targetDate) == deadline > targetDate + 1

\* data.deadline > objective.targetDate
exceedsTargetDate(deadline, targetDate) == deadline > targetDate

\* KeyResultService.updateKeyResult with a deadline: findKeyResultById and
\* findObjectiveById (of getObjectiveWithKeyResults), then the comparison.
UpdateKeyResult_deadline(p) ==
  LET c == procs[p]
      k == c.kr
  IN  /\ c.op = "updateKeyResult" /\ c.pc = "ukr_deadline"
      /\ UNCHANGED <<today, db>>
      /\ IF k \notin DOMAIN krs
         THEN Return(p, c, "KEY_RESULT_NOT_FOUND")
         ELSE IF /\ krs[k].objective_id \in DOMAIN objs
                 /\ exceedsTargetDate(c.data.deadline,
                                      objs[krs[k].objective_id].target_date)
         THEN Return(p, c, "INVALID_DEADLINE")
         ELSE Set(p, [c EXCEPT !.pc = "ukr_write"])

\* The row of key_results after SET of the fields the body defines
updateKeyResultRow(row, d) ==
  [row EXCEPT
     !.target_value = IF d.targetValue # Undef THEN d.targetValue ELSE @,
     !.current_value = IF d.currentValue # Undef THEN d.currentValue ELSE @,
     !.deadline = IF d.deadline # Undef THEN d.deadline ELSE @]

\* KeyResultModel.updateKeyResult: UPDATE key_results SET ... WHERE id
UpdateKeyResult_write(p) ==
  LET c == procs[p]
      k == c.kr
      d == c.data
      row == key_results_auto_status(updateKeyResultRow(krs[k], d))
  IN  /\ c.op = "updateKeyResult" /\ c.pc = "ukr_write"
      /\ UNCHANGED <<today, objs, ledger, nextObj, nextKr, nextPu>>
      /\ IF d = UKR(Undef, Undef, Undef) \/ k \notin DOMAIN krs
         THEN UNCHANGED krs /\ Return(p, c, "ok")
         ELSE IF ~key_results_checks(row)
         THEN UNCHANGED krs /\ Return(p, c, "INTERNAL_ERROR")
         ELSE krs' = [krs EXCEPT ![k] = row] /\ Return(p, c, "ok")

\* ------------------------------------------------------ updateObjective
\* PUT /api/objectives/:id: getObjectiveWithKeyResults and the checks of
\* the body.
UpdateObjective_find(p, o, d) ==
  LET c == [Call("updateObjective") EXCEPT !.obj = o, !.odata = d]
      keyResults == findKeyResultsByObjectiveId(o)
  IN  /\ Free(p)
      /\ UNCHANGED <<today, db>>
      /\ IF o \notin DOMAIN objs
         THEN Return(p, c, "OBJECTIVE_NOT_FOUND")
         ELSE IF /\ d.targetDate # Undef
                 /\ \E k \in keyResults : krs[k].deadline > d.targetDate
         THEN Return(p, c, "INVALID_TARGET_DATE")
         ELSE IF d.status # NoStatus /\ d.status \notin ObjectiveStatuses
         THEN Return(p, c, "INVALID_STATUS")
         ELSE Set(p, [c EXCEPT !.pc = "uo_write"])

\* ObjectiveModel.updateObjective: UPDATE objectives SET ... WHERE id
UpdateObjective_write(p) ==
  LET c == procs[p]
      o == c.obj
      d == c.odata
      row == updateObjectiveRow(objs[o], d)
  IN  /\ c.op = "updateObjective" /\ c.pc = "uo_write"
      /\ UNCHANGED <<today, krs, ledger, nextObj, nextKr, nextPu>>
      /\ IF d = UO(Undef, NoStatus) \/ o \notin DOMAIN objs
         THEN UNCHANGED objs /\ Return(p, c, "ok")
         ELSE IF ~objectives_checks(row)
         THEN UNCHANGED objs /\ Return(p, c, "INTERNAL_ERROR")
         ELSE objs' = [objs EXCEPT ![o] = row] /\ Return(p, c, "ok")

\* ------------------------------------------------------ deleteKeyResult
\* progress_updates with no action on the deletion of a key result
progress_updates_keep(gone) == ledger

\* progress_updates.key_result_id REFERENCES key_results(id) ON DELETE
\* CASCADE: the rows left when the key results gone are deleted
progress_updates_cascade(gone) ==
  SelectSeq(ledger, LAMBDA u : u.key_result_id \notin gone)

\* DELETE /api/key-results/:id: findKeyResultById
DeleteKeyResult_find(p, k) ==
  LET c == [Call("deleteKeyResult") EXCEPT !.kr = k]
  IN  /\ Free(p)
      /\ UNCHANGED <<today, db>>
      /\ IF k \notin DOMAIN krs
         THEN Return(p, c, "KEY_RESULT_NOT_FOUND")
         ELSE Set(p, [c EXCEPT !.pc = "dk_count"])

\* The comparison refusing only below 2 key results
belowMinimum_strict(n) == n < MinKeyResults

\* allKeyResults.length <= 2
belowMinimum(n) == n <= MinKeyResults

\* KeyResultService.deleteKeyResult: findKeyResultById, then
\* findKeyResultsByObjectiveId and the minimum of 2 key results.
DeleteKeyResult_count(p) ==
  LET c == procs[p]
      k == c.kr
      allKeyResults == findKeyResultsByObjectiveId(krs[k].objective_id)
  IN  /\ c.op = "deleteKeyResult" /\ c.pc = "dk_count"
      /\ UNCHANGED <<today, db>>
      /\ IF k \notin DOMAIN krs
         THEN Return(p, c, "false")
         ELSE IF belowMinimum(Cardinality(allKeyResults))
         THEN Return(p, c, "MINIMUM_KEY_RESULTS_REQUIRED")
         ELSE Set(p, [c EXCEPT !.pc = "dk_delete"])

\* KeyResultModel.deleteKeyResult: DELETE FROM key_results WHERE id, which
\* cascades to progress_updates.
DeleteKeyResult_delete(p) ==
  LET c == procs[p]
      k == c.kr
  IN  /\ c.op = "deleteKeyResult" /\ c.pc = "dk_delete"
      /\ UNCHANGED <<today, objs, nextObj, nextKr, nextPu>>
      /\ krs' = Remove(krs, {k})
      /\ ledger' = progress_updates_cascade({k})
      /\ Return(p, c, IF k \in DOMAIN krs THEN "ok" ELSE "false")

\* ------------------------------------------------------ deleteObjective
\* DELETE /api/objectives/:id: getObjectiveWithKeyResults
DeleteObjective_find(p, o) ==
  LET c == [Call("deleteObjective") EXCEPT !.obj = o]
  IN  /\ Free(p)
      /\ UNCHANGED <<today, db>>
      /\ IF o \notin DOMAIN objs
         THEN Return(p, c, "OBJECTIVE_NOT_FOUND")
         ELSE Set(p, [c EXCEPT !.pc = "do_delete"])

\* ObjectiveModel.deleteObjective: DELETE FROM objectives WHERE id, which
\* cascades to key_results and from there to progress_updates.
DeleteObjective_delete(p) ==
  LET c == procs[p]
      o == c.obj
      gone == findKeyResultsByObjectiveId(o)
  IN  /\ c.op = "deleteObjective" /\ c.pc = "do_delete"
      /\ UNCHANGED <<today, nextObj, nextKr, nextPu>>
      /\ objs' = Remove(objs, {o})
      /\ krs' = Remove(krs, gone)
      /\ ledger' = progress_updates_cascade(gone)
      /\ Return(p, c, "ok")

Step(p) ==
  \/ \E r \in DOMAIN CreateRequests : CreateObjective_insert(p, r)
  \/ CreateObjective_keyResult(p)
  \/ \E k \in KrIds, v \in ProgressValues : UpdateProgress_find(p, k, v)
  \/ UpdateProgress_insert(p)
  \/ UpdateProgress_check(p)
  \/ UpdateProgress_complete(p)
  \/ \E r \in DOMAIN BatchRequests : BatchUpdateProgress_call(p, r)
  \/ BatchUpdateProgress_find(p)
  \/ BatchUpdateProgress_insert(p)
  \/ BatchUpdateProgress_check(p)
  \/ BatchUpdateProgress_complete(p)
  \/ \E k \in KrIds, d \in UpdateKeyResultInputs : UpdateKeyResult_find(p, k, d)
  \/ UpdateKeyResult_deadline(p)
  \/ UpdateKeyResult_write(p)
  \/ \E o \in ObjIds, d \in UpdateObjectiveInputs : UpdateObjective_find(p, o, d)
  \/ UpdateObjective_write(p)
  \/ \E k \in KrIds : DeleteKeyResult_find(p, k)
  \/ DeleteKeyResult_count(p)
  \/ DeleteKeyResult_delete(p)
  \/ \E o \in ObjIds : DeleteObjective_find(p, o)
  \/ DeleteObjective_delete(p)

\* Requests handled concurrently
Next ==
  \/ AdvanceDay
  \/ \E p \in Procs : Step(p)

Spec == Init /\ [][Next]_vars

\* Requests handled one after the other
NextSeq ==
  \/ AdvanceDay
  \/ \E p \in Procs : (\A q \in Procs : p <= q) /\ Step(p)

SpecSeq == Init /\ [][NextSeq]_vars

\* Creation and progress only, handled concurrently
StepProgress(p) ==
  \/ \E r \in DOMAIN CreateRequests : CreateObjective_insert(p, r)
  \/ CreateObjective_keyResult(p)
  \/ \E k \in KrIds, v \in ProgressValues : UpdateProgress_find(p, k, v)
  \/ UpdateProgress_insert(p)
  \/ UpdateProgress_check(p)
  \/ UpdateProgress_complete(p)

NextProgress ==
  \/ AdvanceDay
  \/ \E p \in Procs : StepProgress(p)

SpecProgress == Init /\ [][NextProgress]_vars

\* Creation, progress and the history query, handled concurrently
StepHistory(p) ==
  \/ \E r \in DOMAIN CreateRequests : CreateObjective_insert(p, r)
  \/ CreateObjective_keyResult(p)
  \/ \E k \in KrIds, v \in ProgressValues : UpdateProgress_find(p, k, v)
  \/ UpdateProgress_insert(p)
  \/ UpdateProgress_check(p)
  \/ UpdateProgress_complete(p)
  \/ \E r \in DOMAIN BatchRequests : BatchUpdateProgress_call(p, r)
  \/ BatchUpdateProgress_find(p)
  \/ BatchUpdateProgress_insert(p)
  \/ BatchUpdateProgress_check(p)
  \/ BatchUpdateProgress_complete(p)
  \/ \E k \in KrIds, s \in HistoryBounds, e \in HistoryBounds :
       FindProgressUpdates(p, k, s, e)

NextHistory == \E p \in Procs : StepHistory(p)

SpecHistory == Init /\ [][NextHistory]_vars

\* Progress calls handled concurrently on Objectives whose creation has
\* answered: a creation runs with no other call in flight
StepRecord(p) ==
  \/ /\ \A q \in Procs : procs[q].pc = "done"
     /\ \E r \in DOMAIN CreateRequests : CreateObjective_insert(p, r)
  \/ CreateObjective_keyResult(p)
  \/ /\ InFlight("createObjective") = {}
     /\ \/ \E k \in KrIds, v \in ProgressValues : UpdateProgress_find(p, k, v)
        \/ UpdateProgress_insert(p)
        \/ UpdateProgress_check(p)
        \/ UpdateProgress_complete(p)
        \/ \E r \in DOMAIN BatchRequests : BatchUpdateProgress_call(p, r)
        \/ BatchUpdateProgress_find(p)
        \/ BatchUpdateProgress_insert(p)
        \/ BatchUpdateProgress_check(p)
        \/ BatchUpdateProgress_complete(p)

NextRecord ==
  \/ AdvanceDay
  \/ \E p \in Procs : StepRecord(p)

SpecRecord == Init /\ [][NextRecord]_vars

\* ------------------------------------------------- mapRowToKeyResult
\* Math.round(x * 100) / 100 keeps hundredths
RoundUnit == 100

\* completionPercentage of a returned Key Result, in hundredths of a
\* percent: calculateCompletionPercentage, Math.min((currentValue /
\* targetValue) * 100, 100), then Math.round(... * 100) / 100, which rounds
\* a half up; the values are parseFloat of the stored two-decimal numbers
completionPercentage(row) ==
  IF row.target_value = 0 THEN 0
  ELSE Min(((100 * RoundUnit * row.current_value) \div row.target_value)
             + (2 * ((100 * RoundUnit * row.current_value) % row.target_value)
                  + row.target_value) \div (2 * row.target_value),
           100 * RoundUnit)

\* ------------------------------------------- the status of a key result
\* Stored values of target_value, current_value and deadline of a key
\* result: every side of the limits 0%, 50% and 100% and of 14 days
StatusRows ==
  { r \in [target_value : {100, 200, 40000},
           current_value : {0, 50, 99, 100, 200, 39999, 40000},
           deadline : {13, 14, 15}] :
      r.current_value <= r.target_value }

\* An Objective with two Key Results, the first one with stored values
\* that updateKeyResult calls have set
InitStatus ==
  /\ today = 0
  /\ objs = <<[target_date |-> 15, status |-> "active"]>>
  /\ \E r \in StatusRows :
       krs = << key_results_auto_status(
                  [objective_id |-> 1, target_value |-> r.target_value,
                   current_value |-> r.current_value, deadline |-> r.deadline,
                   status |-> "not_started", descLen |-> MinDescription]),
                key_results_auto_status(
                  [objective_id |-> 1, target_value |-> 100,
                   current_value |-> 0, deadline |-> 15,
                   status |-> "not_started", descLen |-> MinDescription]) >>
  /\ ledger = <<>>
  /\ nextObj = 2
  /\ nextKr = 3
  /\ nextPu = 1
  /\ procs = [p \in Procs |-> Idle]
  /\ resp = [op |-> "idle", res |-> "none"]
  /\ calls = 0

\* Writes of a key result, one call after the other
StepStatus(p) ==
  \/ \E k \in KrIds, v \in ProgressValues : UpdateProgress_find(p, k, v)
  \/ UpdateProgress_insert(p)
  \/ UpdateProgress_check(p)
  \/ UpdateProgress_complete(p)
  \/ \E k \in KrIds, d \in UpdateKeyResultInputs : UpdateKeyResult_find(p, k, d)
  \/ UpdateKeyResult_deadline(p)
  \/ UpdateKeyResult_write(p)

NextStatus ==
  \/ AdvanceDay
  \/ \E p \in Procs : (\A q \in Procs : p <= q) /\ StepStatus(p)

SpecStatus == InitStatus /\ [][NextStatus]_vars

\* Creation, progress and the deletion of ledger entries, concurrently
StepLedger(p) ==
  \/ \E r \in DOMAIN CreateRequests : CreateObjective_insert(p, r)
  \/ CreateObjective_keyResult(p)
  \/ \E k \in KrIds, v \in ProgressValues : UpdateProgress_find(p, k, v)
  \/ UpdateProgress_insert(p)
  \/ UpdateProgress_check(p)
  \/ UpdateProgress_complete(p)
  \/ \E r \in DOMAIN BatchRequests : BatchUpdateProgress_call(p, r)
  \/ BatchUpdateProgress_find(p)
  \/ BatchUpdateProgress_insert(p)
  \/ BatchUpdateProgress_check(p)
  \/ BatchUpdateProgress_complete(p)
  \/ \E id \in ProgressUpdateIds : DeleteProgressUpdate(p, id)

NextLedger == \E p \in Procs : StepLedger(p)

SpecLedger == Init /\ [][NextLedger]_vars

\* Creation, updateKeyResult, recordProgress and batchUpdateProgress, one
\* call after the other on one day
StepBatch(p) ==
  \/ \E k \in KrIds, d \in UpdateKeyResultInputs : UpdateKeyResult_find(p, k, d)
  \/ UpdateKeyResult_deadline(p)
  \/ UpdateKeyResult_write(p)
  \/ \E r \in DOMAIN CreateRequests : CreateObjective_insert(p, r)
  \/ CreateObjective_keyResult(p)
  \/ \E k \in KrIds, v \in ProgressValues : UpdateProgress_find(p, k, v)
  \/ UpdateProgress_insert(p)
  \/ UpdateProgress_check(p)
  \/ UpdateProgress_complete(p)
  \/ \E r \in DOMAIN BatchRequests : BatchUpdateProgress_call(p, r)
  \/ BatchUpdateProgress_find(p)
  \/ BatchUpdateProgress_insert(p)
  \/ BatchUpdateProgress_check(p)
  \/ BatchUpdateProgress_complete(p)

NextBatch == \E p \in Procs : (\A q \in Procs : p <= q) /\ StepBatch(p)

SpecBatch == Init /\ [][NextBatch]_vars

\* ================================================================ claims
\* The step is the answer of handler p, which was running operation opname
Returns(p, opname) ==
  /\ procs[p].op = opname
  /\ procs[p].pc # "done"
  /\ procs'[p].pc = "done"

\* The creation of objective o has answered
Created(o) ==
  \A p \in Procs : ~(procs[p].op = "createObjective" /\ procs[p].pc # "done"
                      /\ procs[p].obj = o)

\* The progress updates of key result k, in commit order
LedgerOf(k) == SelectSeq(ledger, LAMBDA u : u.key_result_id = k)

\* C1: every persisted Objective whose creation call has finished owns at
\* least 2 and at most 5 Key Results.
C1_KeyResultsCount ==
  \A o \in DOMAIN objs :
    Created(o) =>
      /\ Cardinality(findKeyResultsByObjectiveId(o)) >= MinKeyResults
      /\ Cardinality(findKeyResultsByObjectiveId(o)) <= MaxKeyResults

\* The call of handler p has brought the last Key Result of its Objective
\* that was not completed to its target value.
BroughtLast(p) ==
  LET c == procs[p]
  IN  /\ c.pc \in {"up_check", "up_complete"}
      /\ c.kr \in DOMAIN krs
      /\ c.st0 # "completed"
      /\ c.val = krs[c.kr].target_value
      /\ \A k \in findKeyResultsByObjectiveId(c.obj) : krs[k].status = "completed"

\* C2: when recordProgress brings the last Key Result that was not completed
\* to 100%, the parent Objective is Completed when the call returns.
C2_CascadeCompleteness ==
  [][\A p \in Procs :
       (Returns(p, "updateProgress") /\ BroughtLast(p))
         => /\ procs[p].obj \in DOMAIN objs'
            /\ objs'[procs[p].obj].status = "completed"]_vars

\* C3: a recordProgress call that ends with an error leaves the ledger, the
\* Key Result's currentValue and status and the Objective's status as they
\* were before the call.
C3_AllOrNothing ==
  [][\A p \in Procs :
       (Returns(p, "updateProgress") /\ resp'.res # "ok")
         => LET c == procs[p]
            IN  /\ Len(ledger') = c.n0
                /\ krs'[c.kr].current_value = c.cur0
                /\ krs'[c.kr].status = c.st0
                /\ objs'[c.obj].status = c.os0]_vars

\* C4: when createObjective ends, either the Objective and all the Key
\* Results of the request are persisted, or none of them is.
C4_AtomicCreate ==
  [][\A p \in Procs :
       Returns(p, "createObjective")
         => LET c == procs[p]
                n == Len(CreateRequests[c.req].keyResults)
                stored == { k \in DOMAIN krs' : krs'[k].objective_id = c.obj }
            IN  \/ c.obj \in DOMAIN objs' /\ Cardinality(stored) = n
                \/ c.obj \notin DOMAIN objs' /\ stored = {}]_vars

\* C5: each Key Result's stored status is the status computed from its
\* stored currentValue, targetValue and deadline and the current date.
C5_NoDrift ==
  \A k \in DOMAIN krs :
    krs[k].status = update_key_result_status(krs[k].current_value,
                      krs[k].target_value, krs[k].deadline, today)

\* C6: every persisted Key Result satisfies 0 <= currentValue <= targetValue.
C6_CurrentValueInRange ==
  \A k \in DOMAIN krs :
    krs[k].current_value >= 0 /\ krs[k].current_value <= krs[k].target_value

\* Progress was recorded on a Key Result and an updateKeyResult call is at
\* the UPDATE that would lower its targetValue below its currentValue.
C6_Witness ==
  \E p \in Procs :
    /\ procs[p].op = "updateKeyResult" /\ procs[p].pc = "ukr_write"
    /\ procs[p].kr \in DOMAIN krs
    /\ LedgerOf(procs[p].kr) # <<>>
    /\ procs[p].data.targetValue # Undef
    /\ procs[p].data.targetValue < krs[procs[p].kr].current_value

\* C7: every Key Result's deadline is on or before the targetDate of its
\* parent Objective.
C7_DeadlineWithinTargetDate ==
  \A k \in DOMAIN krs :
    krs[k].objective_id \in DOMAIN objs
      => krs[k].deadline <= objs[krs[k].objective_id].target_date

\* The newest progress update of key result k (latest recorded_at)
Newest(k) ==
  CHOOSE u \in Range(LedgerOf(k)) :
    \A w \in Range(LedgerOf(k)) : w.recorded_at <= u.recorded_at

LedgerTruth(k) ==
  LedgerOf(k) # <<>> => krs[k].current_value = Newest(k).value_recorded

\* C8: every Key Result that has a ProgressUpdate has the valueRecorded of
\* its newest ProgressUpdate as currentValue.
C8_LedgerTruth == \A k \in DOMAIN krs : LedgerTruth(k)

\* The step is the UPDATE of an updateKeyResult call that sets currentValue
SetsCurrentValue ==
  \E p \in Procs :
    /\ Returns(p, "updateKeyResult")
    /\ procs[p].pc = "ukr_write"
    /\ procs[p].data.currentValue # Undef

\* C8 amended: the valueRecorded of the newest ProgressUpdate is the
\* currentValue of its Key Result after every step but the UPDATE of an
\* updateKeyResult call that sets currentValue.
C8_LedgerTruthAmended ==
  [][(C8_LedgerTruth /\ ~SetsCurrentValue) => C8_LedgerTruth']_vars

\* A progress update was recorded and its value is the current value.
C8_Witness ==
  /\ resp = [op |-> "updateProgress", res |-> "ok"]
  /\ \E k \in DOMAIN krs :
       /\ LedgerOf(k) # <<>>
       /\ krs[k].current_value = Newest(k).value_recorded
       /\ krs[k].current_value > 0

\* C9: of the recordProgress calls on one Key Result, every entry is in the
\* ledger, the currentValue is the value of the call that committed last
\* and the status is the one computed from that value.
C9_LastCommitWins ==
  /\ Len(ledger) = nextPu - 1
  /\ \A k \in DOMAIN krs :
       LET entries == LedgerOf(k)
       IN  entries # <<>> =>
             /\ krs[k].current_value = entries[Len(entries)].value_recorded
             /\ \E d \in 0..today :
                  krs[k].status = update_key_result_status(
                    entries[Len(entries)].value_recorded,
                    krs[k].target_value, krs[k].deadline, d)

\* Two recordProgress calls on the same Key Result, with different values,
\* have both committed their insert while both were running.
C9_Witness ==
  \E p, q \in Procs :
    /\ p # q
    /\ procs[p].op = "updateProgress" /\ procs[p].pc = "up_check"
    /\ procs[q].op = "updateProgress" /\ procs[q].pc = "up_check"
    /\ procs[p].kr = procs[q].kr
    /\ procs[p].val # procs[q].val
    /\ Len(LedgerOf(procs[p].kr)) = 2

\* C10: deleteKeyResult on a Key Result whose Objective has exactly 2 Key
\* Results answers MINIMUM_KEY_RESULTS_REQUIRED and leaves the Key Results
\* and the ledger unchanged.
C10_MinimumKeyResults ==
  [][\A p \in Procs :
       ( /\ procs[p].op = "deleteKeyResult" /\ procs[p].pc = "dk_count"
         /\ procs'[p] # procs[p]
         /\ procs[p].kr \in DOMAIN krs
         /\ Cardinality(findKeyResultsByObjectiveId(krs[procs[p].kr].objective_id))
              = MinKeyResults )
         => /\ resp' = [op |-> "deleteKeyResult", res |-> "MINIMUM_KEY_RESULTS_REQUIRED"]
            /\ krs' = krs
            /\ ledger' = ledger]_vars

\* A deletion was refused and the Objective still has its 2 Key Results.
C10_Witness ==
  /\ resp = [op |-> "deleteKeyResult", res |-> "MINIMUM_KEY_RESULTS_REQUIRED"]
  /\ \E o \in DOMAIN objs :
       Cardinality(findKeyResultsByObjectiveId(o)) = MinKeyResults

\* The step is the DELETE of the deleteKeyResult call of handler p, and the
\* Key Result is there to delete
Deletes(p) ==
  /\ procs[p].op = "deleteKeyResult" /\ procs[p].pc = "dk_delete"
  /\ procs'[p].pc = "done"
  /\ procs[p].kr \in DOMAIN krs

\* C11: of two concurrent deleteKeyResult calls on two Key Results of an
\* Objective that has 3 Key Results at most one deletes: no DELETE of a
\* deleteKeyResult call runs on an Objective that is down to 2 Key Results.
C11_DeleteRace ==
  [][\A p \in Procs :
       Deletes(p) =>
         Cardinality(findKeyResultsByObjectiveId(krs[procs[p].kr].objective_id))
           > MinKeyResults]_vars

\* Handler p is at the status write of checkAndUpdateObjectiveCompletion
AtCompletion(p) ==
  \/ procs[p].op = "updateProgress" /\ procs[p].pc = "up_complete"
  \/ procs[p].op = "batchUpdateProgress" /\ procs[p].pc = "bp_complete"

\* The Objective that write is for
CompletionTarget(p) ==
  IF procs[p].op = "updateProgress" THEN procs[p].obj
  ELSE procs[p].objectiveIds[procs[p].i]

\* C12: the status write of the completion rule, run by recordProgress or
\* batchUpdateProgress, leaves the status of an Archived or Abandoned
\* Objective (one that owns its 2 Key Results or more) as it is.
C12_OnlyPromotesActive ==
  [][\A p \in Procs :
       ( /\ AtCompletion(p)
         /\ procs'[p] # procs[p]
         /\ CompletionTarget(p) \in DOMAIN objs
         /\ objs[CompletionTarget(p)].status \in {"archived", "abandoned"}
         /\ Cardinality(findKeyResultsByObjectiveId(CompletionTarget(p)))
              >= MinKeyResults )
         => objs'[CompletionTarget(p)].status = objs[CompletionTarget(p)].status]_vars

\* The step is one of handler p, which runs one of the operations ops
StepOf(p, ops) ==
  /\ procs'[p] # procs[p]
  /\ procs[p].op \in ops \/ procs'[p].op \in ops

\* C13: no step of a recordProgress, batchUpdateProgress, updateKeyResult
\* or deleteKeyResult call changes the status of a Completed Objective.
C13_NeverDemotes ==
  [][\A p \in Procs :
       StepOf(p, {"updateProgress", "batchUpdateProgress",
                  "updateKeyResult", "deleteKeyResult"})
         => \A o \in DOMAIN objs :
              objs[o].status = "completed"
                => o \in DOMAIN objs' /\ objs'[o].status = "completed"]_vars

\* An updateKeyResult call has left a Key Result that had reached its
\* target below its target, and the Objective is still Completed.
C13_Witness ==
  /\ resp = [op |-> "updateKeyResult", res |-> "ok"]
  /\ \E k \in DOMAIN krs :
       /\ LedgerOf(k) # <<>>
       /\ krs[k].current_value < krs[k].target_value
       /\ krs[k].status # "completed"
       /\ krs[k].objective_id \in DOMAIN objs
       /\ objs[krs[k].objective_id].status = "completed"
       /\ Cardinality(findKeyResultsByObjectiveId(krs[k].objective_id))
            >= MinKeyResults

\* The status changes of an Objective that data-model.md lists
ObjectiveTransitions ==
  { <<"active", "completed">>, <<"active", "archived">>,
    <<"active", "abandoned">>, <<"completed", "archived">>,
    <<"archived", "active">> }

\* C14: every change of the status of an Objective, by updateObjective or
\* by the completion rule, is one of active -> completed, active ->
\* archived, active -> abandoned, completed -> archived, archived -> active.
C14_StatusTransitions ==
  [][\A o \in DOMAIN objs :
       (o \in DOMAIN objs' /\ objs'[o].status # objs[o].status)
         => <<objs[o].status, objs'[o].status>> \in ObjectiveTransitions]_vars

\* What a recordProgress call that answers in this step has added to the
\* ledger: one ProgressUpdate of its Key Result when it succeeds, none
\* when it fails
AddsItsUpdate(p) ==
  IF resp'.res = "ok"
  THEN /\ Len(ledger') = procs[p].n0 + 1
       /\ ledger'[Len(ledger')].key_result_id = procs[p].kr
       /\ ledger'[Len(ledger')].value_recorded = procs[p].val
  ELSE Len(ledger') = procs[p].n0

\* C15: a recordProgress call that succeeds adds exactly one ProgressUpdate
\* to the ledger of its Key Result, one that fails adds none, and no step
\* changes a ProgressUpdate that is in the ledger.
C15_AppendOnly ==
  [][/\ \A p \in Procs : Returns(p, "updateProgress") => AddsItsUpdate(p)
     /\ \A i \in DOMAIN ledger, j \in DOMAIN ledger' :
          ledger[i].id = ledger'[j].id => ledger[i] = ledger'[j]]_vars

\* The answers sent with status 400
ValidationErrors ==
  { "INVALID_KEY_RESULTS_COUNT", "INVALID_DEADLINE", "INVALID_PROGRESS_VALUE",
    "INVALID_TARGET_VALUE", "INVALID_CURRENT_VALUE", "INVALID_TARGET_DATE",
    "INVALID_STATUS", "MINIMUM_KEY_RESULTS_REQUIRED" }

\* Handler p runs the INSERT of a recordProgress call whose value is above
\* the targetValue of its Key Result
InsertsAboveTarget(p) ==
  /\ procs[p].op = "updateProgress" /\ procs[p].pc = "up_insert"
  /\ procs'[p] # procs[p]
  /\ procs[p].kr \in DOMAIN krs
  /\ procs[p].val > krs[procs[p].kr].target_value

\* C16: recordProgress with valueRecorded < 0, or with valueRecorded above
\* the targetValue the Key Result has when the value is stored, answers a
\* validation error (status 400) and stores no ProgressUpdate.
C16_ProgressValidation ==
  [][/\ \A p \in Procs, k \in DOMAIN krs, v \in ProgressValues :
          (v < 0 /\ UpdateProgress_find(p, k, v))
            => resp'.res \in ValidationErrors /\ ledger' = ledger
     /\ \A p \in Procs :
          InsertsAboveTarget(p)
            => resp'.res \in ValidationErrors /\ ledger' = ledger]_vars

\* C17: createObjective with fewer than 2 or more than 5 Key Results
\* answers INVALID_KEY_RESULTS_COUNT; with 2 to 5 Key Results of which one
\* has a deadline after the targetDate it answers INVALID_DEADLINE; in both
\* cases no Objective and no Key Result is stored.
C17_CreateValidation ==
  [][\A p \in Procs, r \in DOMAIN CreateRequests :
       LET data == CreateRequests[r]
           n == Len(data.keyResults)
           late == \E j \in 1..n : data.keyResults[j].deadline > data.targetDate
       IN  /\ (CreateObjective_insert(p, r) /\ (n < 2 \/ n > 5))
                => /\ resp' = [op |-> "createObjective",
                               res |-> "INVALID_KEY_RESULTS_COUNT"]
                   /\ objs' = objs /\ krs' = krs
           /\ (CreateObjective_insert(p, r) /\ n >= 2 /\ n <= 5 /\ late)
                => /\ resp' = [op |-> "createObjective", res |-> "INVALID_DEADLINE"]
                   /\ objs' = objs /\ krs' = krs]_vars

\* A creation with a late deadline was refused and nothing was ever stored.
C17_Witness ==
  /\ resp = [op |-> "createObjective", res |-> "INVALID_DEADLINE"]
  /\ objs = <<>> /\ krs = <<>>
  /\ nextObj = 1 /\ nextKr = 1

\* Handler p runs the deadline check of an updateKeyResult call whose new
\* deadline is after the targetDate of the parent Objective
ChecksLateDeadline(p) ==
  /\ procs[p].op = "updateKeyResult" /\ procs[p].pc = "ukr_deadline"
  /\ procs'[p] # procs[p]
  /\ procs[p].kr \in DOMAIN krs
  /\ krs[procs[p].kr].objective_id \in DOMAIN objs
  /\ procs[p].data.deadline > objs[krs[procs[p].kr].objective_id].target_date

\* C18: updateKeyResult with a deadline after the targetDate of the parent
\* Objective answers INVALID_DEADLINE and changes no field of the Key
\* Result, whatever else the update holds.
C18_InvalidDeadline ==
  [][\A p \in Procs :
       ChecksLateDeadline(p)
         => /\ resp' = [op |-> "updateKeyResult", res |-> "INVALID_DEADLINE"]
            /\ krs' = krs]_vars

\* An update of a deadline was refused; recorded progress aside, every Key
\* Result is as it was created.
C18_Witness ==
  /\ resp = [op |-> "updateKeyResult", res |-> "INVALID_DEADLINE"]
  /\ krs # <<>>
  /\ \A k \in DOMAIN krs :
       /\ krs[k].deadline <= objs[krs[k].objective_id].target_date
       /\ LedgerOf(k) = <<>> => krs[k].current_value = 0

\* C19: every stored Key Result refers to a stored Objective and every
\* stored ProgressUpdate refers to a stored Key Result, so that of a deleted
\* Objective no Key Result and no ProgressUpdate is left.
C19_NoOrphans ==
  /\ \A k \in DOMAIN krs : krs[k].objective_id \in DOMAIN objs
  /\ \A i \in DOMAIN ledger : ledger[i].key_result_id \in DOMAIN krs

\* Handler p is about to run INSERT INTO progress_updates for key result k
AtInsert(p, k) ==
  \/ /\ procs[p].op = "updateProgress" /\ procs[p].pc = "up_insert"
     /\ procs[p].kr = k
  \/ /\ procs[p].op = "batchUpdateProgress" /\ procs[p].pc = "bp_insert"
     /\ BatchRequests[procs[p].req][procs[p].i].keyResultId = k

\* A deletion has removed the Key Results, with the ProgressUpdate that was
\* stored, while a call is about to store a ProgressUpdate of one of them.
C19_Witness ==
  /\ resp.op \in {"deleteObjective", "deleteKeyResult"} /\ resp.res = "ok"
  /\ nextPu > 1 /\ ledger = <<>>
  /\ \E p \in Procs, k \in KrIds : AtInsert(p, k) /\ k \notin DOMAIN krs

\* The step is one of handler p, whose recordProgress call has yet to run
\* its INSERT, or whose deleteKeyResult call has yet to run its DELETE
BeforeWrite(p) ==
  /\ procs'[p] # procs[p]
  /\ \/ procs[p].op = "updateProgress" /\ procs[p].pc = "up_insert"
     \/ procs[p].op = "deleteKeyResult" /\ procs[p].pc \in {"dk_count", "dk_delete"}

\* The answer is KEY_RESULT_NOT_FOUND and the tables are as they were
NotFoundNoChange ==
  /\ resp'.res = "KEY_RESULT_NOT_FOUND"
  /\ objs' = objs /\ krs' = krs /\ ledger' = ledger

\* C20: recordProgress or deleteKeyResult on a Key Result that is not
\* stored, when the call starts or when it comes to its write, answers
\* KEY_RESULT_NOT_FOUND and changes no Objective, Key Result or
\* ProgressUpdate.
C20_NotFound ==
  [][\A p \in Procs :
       /\ \A k \in KrIds \ DOMAIN krs :
            /\ \A v \in ProgressValues :
                 UpdateProgress_find(p, k, v) => NotFoundNoChange
            /\ DeleteKeyResult_find(p, k) => NotFoundNoChange
       /\ (BeforeWrite(p) /\ procs[p].kr \notin DOMAIN krs)
            => resp'.op = procs[p].op /\ NotFoundNoChange]_vars

\* The rows of the ledger that belong to key result k and were recorded in
\* the inclusive range from s to e
Wanted(k, s, e) ==
  { u \in Range(ledger) :
      /\ u.key_result_id = k
      /\ s = Undef \/ u.recorded_at >= s
      /\ e = Undef \/ u.recorded_at <= e }

\* C21: the history query returns exactly the ProgressUpdates of the Key
\* Result recorded within the inclusive range, each once, newest first;
\* with no bound it returns all the ProgressUpdates of the Key Result.
C21_History ==
  [][\A p \in Procs, k \in KrIds, s \in HistoryBounds, e \in HistoryBounds :
       FindProgressUpdates(p, k, s, e)
         => LET rows == resp'.res
            IN  /\ Range(rows) = Wanted(k, s, e)
                /\ Len(rows) = Cardinality(Wanted(k, s, e))
                /\ \A i, j \in DOMAIN rows :
                     i < j => rows[i].recorded_at > rows[j].recorded_at
                /\ (s = Undef /\ e = Undef) => Range(rows) = Range(LedgerOf(k))]_vars

\* The query has returned the two ProgressUpdates of a Key Result.
C21_Witness ==
  /\ resp.op = "findProgressUpdatesByKeyResultId"
  /\ Len(resp.res) = 2
  /\ resp.res[1].recorded_at > resp.res[2].recorded_at

\* The step is the status write of the completion rule by handler p, and
\* it stores completed for an Objective whose creation has answered and
\* that owns its 2 Key Results or more
WritesCompleted(p) ==
  /\ AtCompletion(p)
  /\ procs'[p] # procs[p]
  /\ CompletionTarget(p) \in DOMAIN objs
  /\ objs' = [objs EXCEPT ![CompletionTarget(p)].status = "completed"]
  /\ resp'.res # "INTERNAL_ERROR"
  /\ Created(CompletionTarget(p))
  /\ Cardinality(findKeyResultsByObjectiveId(CompletionTarget(p))) >= MinKeyResults

\* C22: when the completion rule writes completed as the status of an
\* Objective, every Key Result of that Objective has status completed in
\* the store.
C22_NoStaleSiblings ==
  [][\A p \in Procs :
       WritesCompleted(p)
         => \A k \in findKeyResultsByObjectiveId(CompletionTarget(p)) :
              krs[k].status = "completed"]_vars

\* After the step Objective o is stored with 2 Key Results or more that
\* are all completed
AllCompletedAfter(o) ==
  /\ Cardinality({ k \in DOMAIN krs' : krs'[k].objective_id = o }) >= MinKeyResults
  /\ \A k \in DOMAIN krs' : krs'[k].objective_id = o => krs'[k].status = "completed"

\* The step is the write of an updateKeyResult or deleteKeyResult call of
\* handler p, which succeeds and changes the Key Results of an active
\* Objective
MutatesKeyResult(p) ==
  /\ Returns(p, "updateKeyResult") \/ Returns(p, "deleteKeyResult")
  /\ resp'.res = "ok"
  /\ krs' # krs
  /\ krs[procs[p].kr].objective_id \in DOMAIN objs
  /\ objs[krs[procs[p].kr].objective_id].status = "active"

\* C23: when a successful updateKeyResult or deleteKeyResult call leaves an
\* active Objective with Key Results that are all completed, the
\* Objective is completed when the call returns.
C23_MutationCompletes ==
  [][\A p \in Procs :
       (MutatesKeyResult(p) /\ AllCompletedAfter(krs[procs[p].kr].objective_id))
         => objs'[krs[procs[p].kr].objective_id].status = "completed"]_vars

\* The status the rule gives: completed when the completion percentage
\* is 100 or more (c >= t), else not_started when c = 0, else at_risk when
\* the deadline is less than 14 days away and the percentage is under 50
\* (2c < t), else in_progress
StatusRule(c, t, deadline, date) ==
  IF c >= t THEN "completed"
  ELSE IF c = 0 THEN "not_started"
  ELSE IF deadline - date < 14 /\ 2 * c < t THEN "at_risk"
  ELSE "in_progress"

\* C24: the status a write of a Key Result stores, for targetValue > 0 and
\* 0 <= currentValue <= targetValue, is the one of the rule.
C24_StatusFunction ==
  [][\A k \in DOMAIN krs :
       (k \in DOMAIN krs' /\ krs'[k] # krs[k])
         => krs'[k].status = StatusRule(krs'[k].current_value, krs'[k].target_value,
                                        krs'[k].deadline, today)]_vars

\* A write has stored at_risk one day after a write of the same values
\* would have stored in_progress.
C24_Witness ==
  \E k \in DOMAIN krs :
    /\ krs[k].status = "at_risk"
    /\ krs[k].deadline - today = 13
    /\ 2 * krs[k].current_value < krs[k].target_value
    /\ resp.res = "ok"

\* A handler evaluates the completion decision in this step
Decides(p) ==
  /\ procs[p].pc \in {"up_check", "bp_check"}
  /\ procs'[p] # procs[p]

\* C25: the completion decision is true exactly when the Objective has at
\* least one Key Result and all of them are completed; with no Key Result
\* it is false and the Objective's status is not changed.
C25_Decision ==
  [][\A p \in Procs :
       Decides(p) =>
         LET siblings == {k \in DOMAIN krs : krs[k].objective_id = CompletionTarget(p)}
             decision == procs'[p].pc \in {"up_complete", "bp_complete"}
         IN  /\ decision <=> /\ siblings # {}
                              /\ \A k \in siblings : krs[k].status = "completed"
             /\ siblings = {} => ~decision /\ objs' = objs]_vars

\* The decision has just been true for an Objective whose Key Results,
\* two or more, are all completed.
C25_Witness ==
  \E p \in Procs :
    /\ procs[p].pc \in {"up_complete", "bp_complete"}
    /\ Cardinality(findKeyResultsByObjectiveId(CompletionTarget(p))) >= MinKeyResults
    /\ \A k \in findKeyResultsByObjectiveId(CompletionTarget(p)) :
         krs[k].status = "completed"

\* The changes of status the machine of a Key Result has
KeyResultTransitions ==
  { <<"not_started", "in_progress">>, <<"in_progress", "at_risk">>,
    <<"at_risk", "in_progress">>, <<"in_progress", "completed">>,
    <<"at_risk", "completed">> }

\* C26: every change of the stored status of a Key Result is a transition
\* of the machine, or leaves completed with currentValue below targetValue.
C26_KeyResultMachine ==
  [][\A k \in DOMAIN krs :
       (k \in DOMAIN krs' /\ krs'[k].status # krs[k].status)
         => \/ <<krs[k].status, krs'[k].status>> \in KeyResultTransitions
            \/ /\ krs[k].status = "completed"
               /\ krs'[k].current_value < krs'[k].target_value]_vars

\* C27: deleteProgressUpdate removes the named entry and nothing else: the
\* other entries stay, in their order, and no Key Result and no Objective
\* changes, whichever entry it was.
C27_DeleteFrame ==
  [][\A p \in Procs, id \in ProgressUpdateIds :
       DeleteProgressUpdate(p, id) =>
         /\ ledger' = SelectSeq(ledger, LAMBDA u : u.id # id)
         /\ krs' = krs
         /\ objs' = objs]_vars

\* The newest entry of a Key Result with an older entry has been deleted:
\* the Key Result keeps the value and the status that entry gave it.
C27_Witness ==
  /\ resp = [op |-> "deleteProgressUpdate", res |-> "true"]
  /\ \E k \in DOMAIN krs :
       /\ krs[k].current_value = 0
       /\ krs[k].status = "not_started"
       /\ \E u \in Range(ledger) : u.key_result_id = k /\ u.value_recorded = 100
       /\ \A u \in Range(ledger) : u.key_result_id = k => u.value_recorded # 0

\* The Objectives with a Key Result that the batch of handler p has
\* updated and for which it has not evaluated the completion rule since:
\* in the loop of the updates none is evaluated, in the loop of the
\* Objectives the ones after the current one are not
UpdatedUnevaluated(p) ==
  LET c == procs[p]
      updates == BatchRequests[c.req]
  IN  IF c.pc \in {"bp_find", "bp_insert"}
      THEN { krs[updates[j].keyResultId].objective_id :
               j \in { n \in 1..(c.i - 1) : updates[n].keyResultId \in DOMAIN krs } }
      ELSE { c.objectiveIds[j] : j \in (c.i + 1)..Len(c.objectiveIds) }

\* C28: when batchUpdateProgress answers, with success or with an error,
\* the completion rule has been evaluated for the Objective of every Key
\* Result the batch has updated (Objectives with 2 Key Results or more).
C28_BatchCascade ==
  [][\A p \in Procs :
       Returns(p, "batchUpdateProgress") =>
         \A o \in UpdatedUnevaluated(p) :
           Cardinality(findKeyResultsByObjectiveId(o)) < MinKeyResults]_vars

\* The tables after updateProgress has run alone, with success, for the
\* updates from the j-th on, one call after the other: each call inserts
\* its entry, the triggers write the Key Result, and the completion rule
\* is evaluated before the next call
RECURSIVE updateProgressEach(_, _, _, _, _)
updateProgressEach(os, ks, ld, updates, j) ==
  IF j > Len(updates) THEN [objs |-> os, krs |-> ks, ledger |-> ld]
  ELSE LET k == updates[j].keyResultId
           v == updates[j].valueRecorded
           o == ks[k].objective_id
           ks1 == [ks EXCEPT ![k] = key_results_auto_status(
                                      update_key_result_from_progress(@, v))]
           ld1 == Append(ld, [id |-> Len(ld) + 1, key_result_id |-> k,
                              value_recorded |-> v, recorded_at |-> Len(ld) + 1])
           siblings == {x \in DOMAIN ks1 : ks1[x].objective_id = o}
           os1 == IF /\ siblings # {}
                     /\ \A x \in siblings : ks1[x].status = "completed"
                     /\ o \in DOMAIN os
                  THEN [os EXCEPT ![o] = updateObjectiveRow(@, completionData)]
                  ELSE os
       IN  updateProgressEach(os1, ks1, ld1, updates, j + 1)

\* C29: a batchUpdateProgress that succeeds leaves the ledger, the Key
\* Results and the Objectives (each with 2 Key Results or more) as
\* updateProgress called on each update in list order leaves them.
C29_BatchAsEach ==
  [][\A p \in Procs :
       ( /\ Returns(p, "batchUpdateProgress")
         /\ resp'.res = "ok"
         /\ \A o \in DOMAIN procs[p].objs0 :
              Cardinality({k \in DOMAIN procs[p].krs0 :
                             procs[p].krs0[k].objective_id = o}) >= MinKeyResults ) =>
         LET c == procs[p]
             each == updateProgressEach(c.objs0, c.krs0, c.ledger0,
                                        BatchRequests[c.req], 1)
         IN  /\ ledger' = each.ledger
             /\ krs' = each.krs
             /\ objs' = each.objs]_vars

\* C30: a Key Result that a write returns is reported with
\* completionPercentage 100 exactly when its stored status is completed.
C30_HundredIffCompleted ==
  [][\A k \in DOMAIN krs :
       (k \in DOMAIN krs' /\ krs'[k] # krs[k])
         => (completionPercentage(krs'[k]) = 100 * RoundUnit
               <=> krs'[k].status = "completed")]_vars
====
